---- MODULE Spec2Model ----
(***************************************************************************)
(* Markov-chain adaptive-bitrate streaming simulator (src/markov-chain.py). *)
(*                                                                         *)
(* Four state machines share the variables below:                          *)
(*   SpecChain    - simulate_throughput, one outer-loop iteration a step   *)
(*   SpecPlayback - simulate_playback, one loop iteration a step           *)
(*   Spec         - parameter_sweep driving monte_carlo, one trial a step  *)
(*   SpecSeeded   - parameter_sweep called twice; before each call the     *)
(*                  random source is seeded with the same seed             *)
(*                                                                         *)
(* Numbers.  The program computes with Python floats.  A number is modelled *)
(* as an exact rational [n, d] in lowest terms, and every float operation  *)
(* rounds its exact result to Prec significant bits, round-half-to-even,   *)
(* as IEEE-754 does with 53 bits.  The exponent is unbounded (no overflow, *)
(* no subnormals).  Integers stay exact, as Python's do.                   *)
(***************************************************************************)
EXTENDS Integers, Sequences, FiniteSets, TLC

VARIABLES
    P, states, num_steps,              \* arguments of simulate_throughput
    current, trace, r, step,           \* its locals: chain state, trace, last draw, loop counter
    segment_length, smooth_window,     \* arguments of simulate_playback
    buffer_sec, total_stall, i,        \* its loop state (i = index of the next iteration)
    quality, download_time,            \* locals of the last iteration
    avg_bitrate,                       \* first component of its return value
    quality_log, stall_log,            \* history: quality and stall of every iteration run
    segment_lengths, smooth_windows, runs,  \* arguments of parameter_sweep
    si, wi, run, results, rows,        \* its loop positions, monte_carlo's list, rows written
    draws,                             \* number of random.random() calls made so far
    source,                            \* the values a seeded random source yields, in order
    pass, first,                       \* which call of parameter_sweep runs; what the first did
    calls,                             \* history: the traces simulate_throughput returned
    pc, err                            \* control point and the exception raised ("none")

vars == << P, states, num_steps, current, trace, r, step,
           segment_length, smooth_window, buffer_sec, total_stall, i,
           quality, download_time, avg_bitrate, quality_log, stall_log,
           segment_lengths, smooth_windows, runs, si, wi, run, results, rows,
           draws, source, pass, first, calls, pc, err >>

chainVars == << P, states, num_steps, current, r, step >>
playVars  == << segment_length, smooth_window, buffer_sec, total_stall, i,
                quality, download_time, avg_bitrate, quality_log, stall_log >>
sweepVars == << segment_lengths, smooth_windows, runs, si, wi, run, results, rows >>
seedVars  == << source, pass, first, calls >>

----------------------------------------------------------------------------
(* Bounds of the model *)

Prec   == 5      \* significant bits of a float
MaxBw  == 4      \* largest throughput value
MaxLen == 3      \* longest trace handed to simulate_playback
MaxWin == 3      \* largest smoothing window
MaxSteps == 3    \* largest num_steps handed to simulate_throughput
RDen   == 4      \* random.random() draws k/RDen, 0 <= k < RDen
MaxRuns == 2     \* largest number of Monte Carlo trials per cell
MaxDraws == 4    \* number of values a seeded random source is asked for at most

----------------------------------------------------------------------------
(* Exact rationals *)

Abs(x) == IF x < 0 THEN 0 - x ELSE x
Max(a, b) == IF a >= b THEN a ELSE b
Min(a, b) == IF a <= b THEN a ELSE b

RECURSIVE GCD(_, _)
GCD(a, b) == IF b = 0 THEN a ELSE GCD(b, a % b)

RECURSIVE Pow2(_)
Pow2(k) == IF k <= 0 THEN 1 ELSE 2 * Pow2(k - 1)

\* n/d in lowest terms with a positive denominator (d # 0)
Rat(n, d) ==
    LET s == IF d < 0 THEN 0 - 1 ELSE 1
        g == GCD(Abs(n), Abs(d))
    IN  [n |-> (s * n) \div g, d |-> (s * d) \div g]

Zero == Rat(0, 1)
FromInt(k) == Rat(k, 1)

RAdd(a, b) == Rat(a.n * b.d + b.n * a.d, a.d * b.d)
RSub(a, b) == Rat(a.n * b.d - b.n * a.d, a.d * b.d)
RMul(a, b) == Rat(a.n * b.n, a.d * b.d)
RDiv(a, b) == Rat(a.n * b.d, a.d * b.n)          \* b # 0

Lt(a, b) == a.n * b.d < b.n * a.d
Le(a, b) == a.n * b.d <= b.n * a.d
Ge(a, b) == Le(b, a)
IsZero(a) == a.n = 0
IsPos(a) == a.n > 0

----------------------------------------------------------------------------
(* Floats: the exact result rounded to Prec significant bits *)

\* n/d > 0 scaled into [2^(Prec-1), 2^Prec), rounded half-to-even, scaled back:
\* the value rounded is (n/d) * (down/up) throughout
MantLo == Pow2(Prec - 1)
MantHi == Pow2(Prec)

RECURSIVE RoundPos(_, _, _, _)
RoundPos(n, d, up, down) ==
    IF n < d * MantLo THEN RoundPos(2 * n, d, 2 * up, down)
    ELSE IF n >= d * MantHi THEN RoundPos(n, 2 * d, up, 2 * down)
    ELSE LET q   == n \div d
             rem == n % d
             q2  == IF 2 * rem > d \/ (2 * rem = d /\ q % 2 = 1) THEN q + 1 ELSE q
         IN  Rat(q2 * down, up)

FRound(x) ==
    IF x.n = 0 THEN Zero
    ELSE IF x.n > 0 THEN RoundPos(x.n, x.d, 1, 1)
    ELSE LET y == RoundPos(0 - x.n, x.d, 1, 1) IN Rat(0 - y.n, y.d)

IsFloat(x) == FRound(x) = x

FAdd(a, b) == FRound(RAdd(a, b))
FSub(a, b) == FRound(RSub(a, b))
FMul(a, b) == FRound(RMul(a, b))
FDiv(a, b) == FRound(RDiv(a, b))                 \* b # 0

\* a decimal literal tenths/10 read as a float
Decimal(tenths) == FRound(Rat(tenths, 10))

----------------------------------------------------------------------------
(* statistics.mean: the exact mean, rounded once; raises on no data *)

RECURSIVE RSum(_)
RSum(xs) == IF Len(xs) = 0 THEN Zero ELSE RAdd(xs[1], RSum(Tail(xs)))

MeanRaises(xs) == Len(xs) = 0
Mean(xs) == FRound(RDiv(RSum(xs), FromInt(Len(xs))))

\* a trace of integers as numbers
Nums(t) == [k \in 1..Len(t) |-> FromInt(t[k])]

----------------------------------------------------------------------------
(* get_smoothed_throughput(trace, idx, window); idx is the 0-based index *)

SmoothSlice(t, idx, window) ==
    LET start == Max(0, idx - window + 1)
    IN  SubSeq(Nums(t), start + 1, idx + 1)

get_smoothed_throughput_lookahead(t, idx, window) ==
    Mean(SubSeq(Nums(t), idx + 1, Min(Len(t), idx + window)))

get_smoothed_throughput_off_by_one(t, idx, window) ==
    Mean(SubSeq(Nums(t), Max(0, idx - window) + 1, idx + 1))

get_smoothed_throughput(t, idx, window) == Mean(SmoothSlice(t, idx, window))

SmoothRaises(t, idx, window) == MeanRaises(SmoothSlice(t, idx, window))

----------------------------------------------------------------------------
(* simulate_playback(trace, segment_length, smooth_window) *)

\* line 69: the buffer before the first segment
InitialBuffer_empty(seg, w) == Zero

InitialBuffer(seg, w) == FMul(seg, FromInt(w))

\* line 74: download_time = quality * segment_length / bw, left to right
DownloadTime(q, seg, bw) == FDiv(FMul(q, seg), FromInt(bw))

\* lines 73-83: one iteration of the loop at 0-based index idx, from buffer buf
\* and stall total stall.  exc names the exception the iteration raises; stalled
\* is the stall of this iteration.
IterRaised(name, buf, stall) ==
    [exc |-> name, buffer_sec |-> buf, total_stall |-> stall,
     quality |-> Zero, download_time |-> Zero, stalled |-> Zero]

\* lines 76-83 with the stalled branch leaving the buffer as it was
Drain_no_reset(buf, stall, seg, q, dt) ==
    IF Ge(buf, dt)
    THEN [exc |-> "none", buffer_sec |-> FAdd(FSub(buf, dt), seg),
          total_stall |-> stall, quality |-> q, download_time |-> dt,
          stalled |-> Zero]
    ELSE [exc |-> "none", buffer_sec |-> FAdd(buf, seg),
          total_stall |-> FAdd(stall, FSub(dt, buf)), quality |-> q,
          download_time |-> dt, stalled |-> FSub(dt, buf)]

\* lines 76-83 with the stalled branch subtracting the download time all the same,
\* so that the deficit stays in the buffer
Drain_overdrawn(buf, stall, seg, q, dt) ==
    IF Ge(buf, dt)
    THEN [exc |-> "none", buffer_sec |-> FAdd(FSub(buf, dt), seg),
          total_stall |-> stall, quality |-> q, download_time |-> dt,
          stalled |-> Zero]
    ELSE [exc |-> "none", buffer_sec |-> FAdd(FSub(buf, dt), seg),
          total_stall |-> FAdd(stall, FSub(dt, buf)), quality |-> q,
          download_time |-> dt, stalled |-> FSub(dt, buf)]

\* lines 76-83: the buffer update, given the quality and the download time
Drain(buf, stall, seg, q, dt) ==
    IF Ge(buf, dt)
    THEN [exc |-> "none", buffer_sec |-> FAdd(FSub(buf, dt), seg),
          total_stall |-> stall, quality |-> q, download_time |-> dt,
          stalled |-> Zero]
    ELSE [exc |-> "none", buffer_sec |-> FAdd(Zero, seg),
          total_stall |-> FAdd(stall, FSub(dt, buf)), quality |-> q,
          download_time |-> dt, stalled |-> FSub(dt, buf)]

\* the element of a one-element set
The(S) == CHOOSE x \in S : TRUE

\* (q and dt are bound through one-element sets so that each is computed once)
PlaybackBody(buf, stall, t, idx, seg, w) ==
    IF SmoothRaises(t, idx, w) THEN IterRaised("StatisticsError", buf, stall)
    ELSE IF t[idx + 1] = 0 THEN IterRaised("ZeroDivisionError", buf, stall)
    ELSE The(UNION {
            {Drain(buf, stall, seg, q, dt) : dt \in {DownloadTime(q, seg, t[idx + 1])}}
            : q \in {get_smoothed_throughput(t, idx, w)}})

\* lines 85-88: the mean of the smoothed values over all indices
AverageBitrate_raw(t, w) == Mean(Nums(t))

AverageBitrate(t, w) ==
    Mean([k \in 1..Len(t) |-> get_smoothed_throughput(t, k - 1, w)])

AverageRaises(t, w) ==
    \/ MeanRaises(t)
    \/ \E k \in 1..Len(t) : SmoothRaises(t, k - 1, w)

\* lines 69-89 as a function: the loop from index idx on, then the return value
RECURSIVE PlaybackLoop(_, _, _, _, _, _)
PlaybackLoop(buf, stall, t, idx, seg, w) ==
    IF idx >= Len(t)
    THEN IF AverageRaises(t, w)
         THEN [exc |-> "StatisticsError", avg_bitrate |-> Zero, total_stall |-> stall]
         ELSE [exc |-> "none", avg_bitrate |-> AverageBitrate(t, w),
               total_stall |-> stall]
    ELSE LET b == PlaybackBody(buf, stall, t, idx, seg, w)
         IN  IF b.exc # "none"
             THEN [exc |-> b.exc, avg_bitrate |-> Zero, total_stall |-> b.total_stall]
             ELSE PlaybackLoop(b.buffer_sec, b.total_stall, t, idx + 1, seg, w)

simulate_playback(t, seg, w) == PlaybackLoop(InitialBuffer(seg, w), Zero, t, 0, seg, w)

----------------------------------------------------------------------------
(* simulate_throughput(num_steps, P, states); current is the 0-based state index *)

One == FromInt(1)

\* lines 32-37 with the test r <= cum
RECURSIVE Walk_closed(_, _, _, _, _)
Walk_closed(row, rr, j, cum, cur) ==
    IF j > Len(row) THEN cur
    ELSE IF Le(rr, FAdd(cum, row[j])) THEN j - 1
    ELSE Walk_closed(row, rr, j + 1, FAdd(cum, row[j]), cur)

\* lines 32-37 ending in the last state of the row when no test succeeds
RECURSIVE Walk_last(_, _, _, _, _)
Walk_last(row, rr, j, cum, cur) ==
    IF j > Len(row) THEN Len(row) - 1
    ELSE IF Lt(rr, FAdd(cum, row[j])) THEN j - 1
    ELSE Walk_last(row, rr, j + 1, FAdd(cum, row[j]), cur)

\* lines 32-37: the scan of the row from its j-th entry (1-based) with the running
\* sum cum; the state chosen, or cur when the loop ends without a break
RECURSIVE Walk(_, _, _, _, _)
Walk(row, rr, j, cum, cur) ==
    IF j > Len(row) THEN cur
    ELSE IF Lt(rr, FAdd(cum, row[j])) THEN j - 1
    ELSE Walk(row, rr, j + 1, FAdd(cum, row[j]), cur)

NextState_closed(row, rr, cur) == Walk_closed(row, rr, 1, Zero, cur)
NextState_last(row, rr, cur) == Walk_last(row, rr, 1, Zero, cur)

NextState(row, rr, cur) == Walk(row, rr, 1, Zero, cur)

\* line 30: the sample emitted in state cur
Emit_next(sts, Pm, rr, cur) == sts[NextState(Pm[cur + 1], rr, cur) + 1]

Emit(sts, Pm, rr, cur) == sts[cur + 1]

\* line 30 raises IndexError when states has no entry cur; line 33 when P has no row cur
EmitRaises(sts, cur) == cur >= Len(sts)
RowRaises(Pm, cur) == cur >= Len(Pm)

\* lines 27-38 as a function of the draws rs, from iteration k (0-based) on
RECURSIVE ChainLoop(_, _, _, _, _, _, _)
ChainLoop(n, Pm, sts, rs, k, cur, tr) ==
    IF k >= n THEN [exc |-> "none", trace |-> tr, used |-> k]
    ELSE IF EmitRaises(sts, cur) THEN [exc |-> "IndexError", trace |-> tr, used |-> k]
    ELSE IF RowRaises(Pm, cur)
    THEN [exc |-> "IndexError", trace |-> Append(tr, Emit(sts, Pm, rs[k + 1], cur)),
          used |-> k + 1]
    ELSE ChainLoop(n, Pm, sts, rs, k + 1, NextState(Pm[cur + 1], rs[k + 1], cur),
                   Append(tr, Emit(sts, Pm, rs[k + 1], cur)))

simulate_throughput(n, Pm, sts, rs) == ChainLoop(n, Pm, sts, rs, 0, 0, << >>)

----------------------------------------------------------------------------
(* statistics.stdev: the square root of the exact sample variance, rounded once *)

RECURSIVE SumSqDev(_, _)
SumSqDev(xs, c) ==
    IF Len(xs) = 0 THEN Zero
    ELSE RAdd(RMul(RSub(xs[1], c), RSub(xs[1], c)), SumSqDev(Tail(xs), c))

\* the exact variance with divisor n - 1 (n >= 2)
Variance(xs) ==
    RDiv(SumSqDev(xs, RDiv(RSum(xs), FromInt(Len(xs)))), FromInt(Len(xs) - 1))

\* sqrt(n/d) for n/d > 0 scaled by powers of 4 into [MantLo^2, MantHi^2): the root
\* lies in [MantLo, MantHi) and is rounded half-to-even there
RECURSIVE SqrtPos(_, _, _, _)
SqrtPos(n, d, up, down) ==
    IF n < d * MantLo * MantLo THEN SqrtPos(4 * n, d, 2 * up, down)
    ELSE IF n >= d * MantHi * MantHi THEN SqrtPos(n, 4 * d, up, 2 * down)
    ELSE LET m  == CHOOSE k \in MantLo..(MantHi - 1) :
                       k * k * d <= n /\ (k + 1) * (k + 1) * d > n
             hi == 4 * n > (4 * m * m + 4 * m + 1) * d
             eq == 4 * n = (4 * m * m + 4 * m + 1) * d
             m2 == IF hi \/ (eq /\ m % 2 = 1) THEN m + 1 ELSE m
         IN  Rat(m2 * down, up)

FSqrt(x) == IF x.n = 0 THEN Zero ELSE SqrtPos(x.n, x.d, 1, 1)

StdevRaises(xs) == Len(xs) < 2
Stdev(xs) == FSqrt(Variance(xs))

----------------------------------------------------------------------------
(* monte_carlo and parameter_sweep *)

\* lines 112-117: the rest of a trial, given what simulate_throughput did (tr)
TrialOutcome(tr, seg, w) ==
    IF tr.exc # "none"
    THEN [exc |-> tr.exc, trace |-> tr.trace, used |-> tr.used,
          avg_bitrate |-> Zero, total_stall |-> Zero]
    ELSE The({[exc |-> o.exc, trace |-> tr.trace, used |-> tr.used,
               avg_bitrate |-> o.avg_bitrate, total_stall |-> o.total_stall]
              : o \in {simulate_playback(tr.trace, seg, w)}})

\* lines 140-144
Header == << "segment_length", "smooth_window", "mean_bitrate", "sd_bitrate",
             "mean_stall", "sd_stall" >>

\* lines 154-155
Column(data, c) == [k \in 1..Len(data) |-> data[k][c]]

\* lines 156-160: the row of one cell
Row(seg, w, data) ==
    << seg, w, Mean(Column(data, 1)), Stdev(Column(data, 1)),
       Mean(Column(data, 2)), Stdev(Column(data, 2)) >>

\* statistics.mean needs one data point, statistics.stdev two
StatsRaise(data) == MeanRaises(data) \/ StdevRaises(data)

\* lines 156-160 with a deviation that is 0.0 for a single outcome, as
\* statistics.pstdev gives
Aggregate_single_is_zero(seg, w, data) ==
    IF MeanRaises(data) THEN [exc |-> "StatisticsError", row |-> << >>]
    ELSE IF Len(data) = 1
    THEN [exc |-> "none",
          row |-> << seg, w, Mean(Column(data, 1)), Zero,
                     Mean(Column(data, 2)), Zero >>]
    ELSE [exc |-> "none", row |-> Row(seg, w, data)]

\* lines 154-160: the aggregation of a cell: the row written, or the exception that
\* statistics.mean or statistics.stdev raises while the row is being built
Aggregate(seg, w, data) ==
    IF StatsRaise(data) THEN [exc |-> "StatisticsError", row |-> << >>]
    ELSE [exc |-> "none", row |-> Row(seg, w, data)]

\* line 109 with a list that outlives the call, as a mutable default argument or a
\* module-level list would
NewResults_shared(old) == old

\* line 109: monte_carlo starts from an empty list, whatever an earlier call left
NewResults(old) == << >>

\* lines 145-146 with the loops nested the other way round
NextCell_windows_outside(s, w, ns, nw) ==
    IF s + 1 < ns THEN << s + 1, w >> ELSE << 0, w + 1 >>

\* lines 145-146: the cell after cell (s, w) of ns segment lengths and nw windows:
\* the windows are the inner loop
NextCell(s, w, ns, nw) ==
    IF w + 1 < nw THEN << s, w + 1 >> ELSE << s + 1, 0 >>

----------------------------------------------------------------------------
(* Inputs *)

\* throughput values: the positive ones, and 0 and -1 for the invalid ones
BwSet == {0 - 1, 0} \cup (1..MaxBw)

RECURSIVE SeqsUpTo(_, _)
SeqsUpTo(S, k) ==
    IF k = 0 THEN {<< >>}
    ELSE LET shorter == SeqsUpTo(S, k - 1)
         IN  shorter \cup {Append(s, x) : s \in {q \in shorter : Len(q) = k - 1}, x \in S}

Traces == SeqsUpTo(BwSet, MaxLen)

\* segment lengths, in tenths of a second as a configuration file writes them
SegTenths == {1, 20}
SegSet == {Decimal(k) : k \in SegTenths}

WinSet == 1..MaxWin

\* random.random(): a float in [0, 1)
RSet == {x \in {FRound(Rat(k, RDen)) : k \in 0..(RDen - 1)} : Lt(x, One)}

\* rows of a transition matrix over two states, in quarters: rows that sum to 1,
\* rows that sum to less, a row too short and a row too long
Quarters(row) == [k \in 1..Len(row) |-> FRound(Rat(row[k], 4))]
RowSet == {Quarters(row) : row \in {<<4, 0>>, <<0, 4>>, <<1, 3>>, <<2, 2>>,
                                     <<0, 2>>, <<2, 1>>, <<4>>, <<1, 1, 2>>}}
Matrices == {<<a, b>> : a \in RowSet, b \in RowSet}

StateLists == {<<1, 4>>, <<3, 0>>, <<2, 1, 4>>}
StepCounts == 0..MaxSteps

\* the configurations parameter_sweep is run on
SweepMatrices == { << Quarters(<<1, 3>>), Quarters(<<2, 2>>) >>,
                   << Quarters(<<0, 2>>), Quarters(<<4, 0>>) >>,
                   << Quarters(<<1, 1, 2>>), Quarters(<<2, 2>>) >> }
SweepStateLists == {<<1, 4>>, <<3, 0>>}
SweepStepCounts == {0, 1, 2}
Decimals(tenths) == [k \in 1..Len(tenths) |-> Decimal(tenths[k])]
SweepSegLists == {Decimals(<<20, 1>>), Decimals(<<20>>), Decimals(<<0 - 10, 20>>)}
SweepWinLists == {<<1, 2>>, <<2>>, <<0, 1>>}
SweepRuns == 0..MaxRuns

\* the sequences a seeded random source yields: low and high draws in any order
SeedDraws == {Zero, FRound(Rat(RDen - 1, RDen))}
Sources == [1..MaxDraws -> SeedDraws]

\* the configurations parameter_sweep is run on under a seeded source
SeededStepCounts == {1, 2}
SeededSegLists == {Decimals(<<20>>), Decimals(<<20, 1>>)}
SeededWinLists == {<<2>>, <<1, 2>>}
SeededRuns == 1..MaxRuns

----------------------------------------------------------------------------
(* SpecPlayback: simulate_playback, one loop iteration a step *)

Idle == << >>

InitPlayback ==
    /\ trace \in Traces
    /\ segment_length \in SegSet
    /\ smooth_window \in WinSet
    /\ buffer_sec = InitialBuffer(segment_length, smooth_window)
    /\ total_stall = Zero
    /\ i = 0
    /\ quality = Zero /\ download_time = Zero /\ avg_bitrate = Zero
    /\ quality_log = << >> /\ stall_log = << >>
    /\ pc = "play" /\ err = "none"
    /\ P = Idle /\ states = Idle /\ num_steps = 0
    /\ current = 0 /\ r = Zero /\ step = 0 /\ draws = 0
    /\ segment_lengths = Idle /\ smooth_windows = Idle /\ runs = 0
    /\ si = 0 /\ wi = 0 /\ run = 0 /\ results = << >> /\ rows = << >>
    /\ source = Idle /\ pass = 1 /\ first = Idle /\ calls = << >>

\* lines 72-83: one iteration that completes
PlaybackIter ==
    /\ pc = "play" /\ i < Len(trace)
    /\ \E b \in {PlaybackBody(buffer_sec, total_stall, trace, i, segment_length,
                              smooth_window)} :
           /\ b.exc = "none"
           /\ buffer_sec' = b.buffer_sec
           /\ total_stall' = b.total_stall
           /\ quality' = b.quality
           /\ download_time' = b.download_time
           /\ quality_log' = Append(quality_log, b.quality)
           /\ stall_log' = Append(stall_log, b.stalled)
    /\ i' = i + 1
    /\ UNCHANGED << trace, segment_length, smooth_window, avg_bitrate, pc, err,
                    chainVars, sweepVars, draws, seedVars >>

\* lines 73-74: an iteration that raises (statistics.mean of no data, division by 0)
PlaybackIterRaise ==
    /\ pc = "play" /\ i < Len(trace)
    /\ \E b \in {PlaybackBody(buffer_sec, total_stall, trace, i, segment_length,
                              smooth_window)} :
           /\ b.exc # "none"
           /\ err' = b.exc
    /\ pc' = "raised"
    /\ UNCHANGED << seedVars, trace, playVars, chainVars, sweepVars, draws >>

\* lines 85-89: the loop is over; the average is computed and the pair returned
PlaybackReturn ==
    /\ pc = "play" /\ i = Len(trace)
    /\ ~AverageRaises(trace, smooth_window)
    /\ avg_bitrate' = AverageBitrate(trace, smooth_window)
    /\ pc' = "returned"
    /\ UNCHANGED << trace, segment_length, smooth_window, buffer_sec, total_stall, i,
                    quality, download_time, quality_log, stall_log, err,
                    chainVars, sweepVars, draws, seedVars >>

\* lines 85-88: statistics.mean of an empty generator raises
PlaybackReturnRaise ==
    /\ pc = "play" /\ i = Len(trace)
    /\ AverageRaises(trace, smooth_window)
    /\ err' = "StatisticsError"
    /\ pc' = "raised"
    /\ UNCHANGED << seedVars, trace, playVars, chainVars, sweepVars, draws >>

NextPlayback ==
    \/ PlaybackIter
    \/ PlaybackIterRaise
    \/ PlaybackReturn
    \/ PlaybackReturnRaise

SpecPlayback == InitPlayback /\ [][NextPlayback]_vars

----------------------------------------------------------------------------
(* SpecChain: simulate_throughput, one iteration of the outer loop a step *)

InitChain ==
    /\ P \in Matrices
    /\ states \in StateLists
    /\ num_steps \in StepCounts
    /\ current = 0 /\ trace = << >> /\ r = Zero /\ step = 0 /\ draws = 0
    /\ pc = "chain" /\ err = "none"
    /\ segment_length = Zero /\ smooth_window = 0
    /\ buffer_sec = Zero /\ total_stall = Zero /\ i = 0
    /\ quality = Zero /\ download_time = Zero /\ avg_bitrate = Zero
    /\ quality_log = << >> /\ stall_log = << >>
    /\ segment_lengths = Idle /\ smooth_windows = Idle /\ runs = 0
    /\ si = 0 /\ wi = 0 /\ run = 0 /\ results = << >> /\ rows = << >>
    /\ source = Idle /\ pass = 1 /\ first = Idle /\ calls = << >>

\* lines 29-37: emit the sample of the current state, draw, move
ChainIter ==
    /\ pc = "chain" /\ step < num_steps
    /\ ~EmitRaises(states, current) /\ ~RowRaises(P, current)
    /\ \E rr \in RSet :
          /\ r' = rr
          /\ trace' = Append(trace, Emit(states, P, rr, current))
          /\ current' = NextState(P[current + 1], rr, current)
    /\ step' = step + 1
    /\ draws' = draws + 1
    /\ UNCHANGED << seedVars, P, states, num_steps, pc, err, playVars, sweepVars >>

\* line 30: states[current] is out of range
ChainEmitRaise ==
    /\ pc = "chain" /\ step < num_steps
    /\ EmitRaises(states, current)
    /\ pc' = "raised" /\ err' = "IndexError"
    /\ UNCHANGED << seedVars, chainVars, trace, draws, playVars, sweepVars >>

\* lines 30-33: the sample is emitted and r drawn, then P[current] is out of range
ChainRowRaise ==
    /\ pc = "chain" /\ step < num_steps
    /\ ~EmitRaises(states, current) /\ RowRaises(P, current)
    /\ \E rr \in RSet :
          /\ r' = rr
          /\ trace' = Append(trace, Emit(states, P, rr, current))
    /\ draws' = draws + 1
    /\ pc' = "raised" /\ err' = "IndexError"
    /\ UNCHANGED << seedVars, P, states, num_steps, current, step, playVars, sweepVars >>

\* line 38
ChainReturn ==
    /\ pc = "chain" /\ step >= num_steps
    /\ pc' = "returned"
    /\ UNCHANGED << seedVars, chainVars, trace, draws, err, playVars, sweepVars >>

NextChain ==
    \/ ChainIter
    \/ ChainEmitRaise
    \/ ChainRowRaise
    \/ ChainReturn

SpecChain == InitChain /\ [][NextChain]_vars

----------------------------------------------------------------------------
(* Spec: parameter_sweep; one monte_carlo trial, or one row, a step *)

Init ==
    /\ P \in SweepMatrices
    /\ states \in SweepStateLists
    /\ num_steps \in SweepStepCounts
    /\ segment_lengths \in SweepSegLists
    /\ smooth_windows \in SweepWinLists
    /\ runs \in SweepRuns
    /\ si = 0 /\ wi = 0 /\ run = 0 /\ results = << >> /\ rows = << >>
    /\ trace = << >> /\ draws = 0
    /\ pc = "sweep" /\ err = "none"
    /\ current = 0 /\ r = Zero /\ step = 0
    /\ segment_length = Zero /\ smooth_window = 0
    /\ buffer_sec = Zero /\ total_stall = Zero /\ i = 0
    /\ quality = Zero /\ download_time = Zero /\ avg_bitrate = Zero
    /\ quality_log = << >> /\ stall_log = << >>
    /\ source = Idle /\ pass = 1 /\ first = Idle /\ calls = << >>

\* the loops of lines 145-146 stand at a cell
AtCell == pc = "cell" /\ si < Len(segment_lengths) /\ wi < Len(smooth_windows)

\* line 31: the draws one call of simulate_throughput may be dealt: any, or the next
\* num_steps values of the seeded source
DrawSeqs ==
    IF source = Idle THEN [1..num_steps -> RSet]
    ELSE {[k \in 1..num_steps |-> source[draws + k]]}

\* line 111 hoisted out of the loop of line 110: the trials after the first of a
\* cell are handed the trace of the first, and draw nothing
ChainResults_reused ==
    IF run = 0
    THEN {simulate_throughput(num_steps, P, states, rs) : rs \in DrawSeqs}
    ELSE {[exc |-> "none", trace |-> trace, used |-> 0]}

\* line 111: what simulate_throughput can do, over all the draws it may be dealt
ChainResults == {simulate_throughput(num_steps, P, states, rs) : rs \in DrawSeqs}

\* lines 138-144: the file is opened and the header row written
WriteHeader ==
    /\ pc = "sweep"
    /\ rows' = << Header >>
    /\ pc' = "cell"
    /\ UNCHANGED << P, states, num_steps, current, trace, r, step, playVars, seedVars,
                    segment_lengths, smooth_windows, runs, si, wi, run, results,
                    draws, err >>

\* lines 110-117: one trial of monte_carlo for the cell
McTrial ==
    /\ AtCell /\ run < runs
    /\ \E tr \in ChainResults :
         \E t \in {TrialOutcome(tr, segment_lengths[si + 1],
                                smooth_windows[wi + 1])} :
            /\ t.exc = "none"
            /\ trace' = t.trace
            /\ calls' = IF source = Idle THEN calls ELSE Append(calls, tr.trace)
            /\ draws' = draws + t.used
            /\ results' = Append(results, << t.avg_bitrate, t.total_stall >>)
    /\ run' = run + 1
    /\ UNCHANGED << P, states, num_steps, current, r, step, playVars,
                    source, pass, first,
                    segment_lengths, smooth_windows, runs, si, wi, rows, pc, err >>

\* lines 111-112: the trial raises, and the exception leaves parameter_sweep
McTrialRaise ==
    /\ AtCell /\ run < runs
    /\ \E tr \in ChainResults :
         \E t \in {TrialOutcome(tr, segment_lengths[si + 1],
                                smooth_windows[wi + 1])} :
            /\ t.exc # "none"
            /\ trace' = t.trace
            /\ calls' = IF source = Idle \/ tr.exc # "none" THEN calls
                        ELSE Append(calls, tr.trace)
            /\ draws' = draws + t.used
            /\ err' = t.exc
    /\ pc' = "raised"
    /\ UNCHANGED << P, states, num_steps, current, r, step, playVars,
                    source, pass, first,
                    segment_lengths, smooth_windows, runs, si, wi, run, results,
                    rows >>

\* lines 154-160: monte_carlo has returned; the row of the cell is written and the
\* loops move to the next cell
WriteRow ==
    /\ AtCell /\ run >= runs
    /\ \E a \in {Aggregate(segment_lengths[si + 1], smooth_windows[wi + 1],
                           results)} :
          /\ a.exc = "none"
          /\ rows' = Append(rows, a.row)
    /\ \E c \in {NextCell(si, wi, Len(segment_lengths), Len(smooth_windows))} :
          si' = c[1] /\ wi' = c[2]
    /\ run' = 0 /\ results' = NewResults(results)
    /\ UNCHANGED << P, states, num_steps, current, trace, r, step, playVars, seedVars,
                    segment_lengths, smooth_windows, runs, draws, pc, err >>

\* lines 158-159: statistics.mean or statistics.stdev raises on too few outcomes
WriteRowRaise ==
    /\ AtCell /\ run >= runs
    /\ \E a \in {Aggregate(segment_lengths[si + 1], smooth_windows[wi + 1],
                           results)} :
          /\ a.exc # "none"
          /\ err' = a.exc
    /\ pc' = "raised"
    /\ UNCHANGED << P, states, num_steps, current, trace, r, step, playVars, seedVars,
                    segment_lengths, smooth_windows, runs, si, wi, run, results,
                    rows, draws >>

\* line 161: both loops are over
SweepReturn ==
    /\ pc = "cell" /\ ~AtCell
    /\ pc' = "returned"
    /\ UNCHANGED << P, states, num_steps, current, trace, r, step, playVars, seedVars,
                    sweepVars, draws, err >>

Next ==
    \/ WriteHeader
    \/ McTrial
    \/ McTrialRaise
    \/ WriteRow
    \/ WriteRowRaise
    \/ SweepReturn

Spec == Init /\ [][Next]_vars

----------------------------------------------------------------------------
(* SpecSeeded: the random source is seeded, parameter_sweep is called, the source
   is seeded again with the same seed and parameter_sweep is called again with the
   same arguments *)

InitSeeded ==
    /\ P \in SweepMatrices
    /\ states \in SweepStateLists
    /\ num_steps \in SeededStepCounts
    /\ segment_lengths \in SeededSegLists
    /\ smooth_windows \in SeededWinLists
    /\ runs \in SeededRuns
    /\ num_steps * runs * Len(segment_lengths) * Len(smooth_windows) <= MaxDraws
    /\ source \in Sources
    /\ pass = 1 /\ first = Idle /\ calls = << >>
    /\ si = 0 /\ wi = 0 /\ run = 0 /\ results = << >> /\ rows = << >>
    /\ trace = << >> /\ draws = 0
    /\ pc = "sweep" /\ err = "none"
    /\ current = 0 /\ r = Zero /\ step = 0
    /\ segment_length = Zero /\ smooth_window = 0
    /\ buffer_sec = Zero /\ total_stall = Zero /\ i = 0
    /\ quality = Zero /\ download_time = Zero /\ avg_bitrate = Zero
    /\ quality_log = << >> /\ stall_log = << >>

\* the first call is over (returned or raised); what it did is kept, the source is
\* seeded again and parameter_sweep is entered again: line 138 truncates the file,
\* line 109 gives the first cell its list
SweepAgain ==
    /\ pass = 1 /\ pc \in {"returned", "raised"}
    /\ first' = [rows |-> rows, calls |-> calls, pc |-> pc, err |-> err]
    /\ pass' = 2
    /\ draws' = 0
    /\ calls' = << >>
    /\ rows' = << >>
    /\ si' = 0 /\ wi' = 0 /\ run' = 0 /\ results' = NewResults(results)
    /\ pc' = "sweep" /\ err' = "none"
    /\ UNCHANGED << source, P, states, num_steps, current, trace, r, step, playVars,
                    segment_lengths, smooth_windows, runs >>

NextSeeded ==
    \/ WriteHeader
    \/ McTrial
    \/ McTrialRaise
    \/ WriteRow
    \/ WriteRowRaise
    \/ SweepReturn
    \/ SweepAgain

SpecSeeded == InitSeeded /\ [][NextSeeded]_vars

----------------------------------------------------------------------------
(* Properties of simulate_playback and get_smoothed_throughput *)

AllPositive(t) == \A k \in 1..Len(t) : t[k] > 0
NonDecreasing(t) == \A k \in 1..Len(t) - 1 : t[k] <= t[k + 1]
Running == pc \in {"play", "returned"}

\* t[lo] + ... + t[hi] over the integers
RECURSIVE SumInts(_, _, _)
SumInts(t, lo, hi) == IF lo > hi THEN 0 ELSE t[lo] + SumInts(t, lo + 1, hi)

\* the float sum 0.0 + xs[1] + ... + xs[k], added left to right
RECURSIVE FSumLeft(_, _)
FSumLeft(xs, k) == IF k = 0 THEN Zero ELSE FAdd(FSumLeft(xs, k - 1), xs[k])

\* C1: the buffer starts at segment_length * smooth_window; each iteration takes
\* download_time = smoothed * segment_length / trace[i]; when the buffer covers it
\* the buffer drops by download_time and the stall total stays, otherwise the stall
\* total grows by download_time - buffer and the buffer becomes 0; then the buffer
\* grows by segment_length.  The returned stall is the sum of the per-step stalls.
C1_BufferRule ==
    /\ [](i = 0 => buffer_sec = FRound(RMul(segment_length, FromInt(smooth_window))))
    /\ [][(pc = "play" /\ i' = i + 1) =>
            LET q  == get_smoothed_throughput(trace, i, smooth_window)
                dt == FRound(RDiv(FRound(RMul(q, segment_length)), FromInt(trace[i + 1])))
            IN  /\ download_time' = dt
                /\ IF Ge(buffer_sec, dt)
                   THEN /\ buffer_sec' = FAdd(FSub(buffer_sec, dt), segment_length)
                        /\ total_stall' = total_stall
                        /\ stall_log'[i + 1] = Zero
                   ELSE /\ buffer_sec' = segment_length
                        /\ total_stall' = FAdd(total_stall, FSub(dt, buffer_sec))
                        /\ stall_log'[i + 1] = FSub(dt, buffer_sec)]_vars
    /\ [](pc = "returned" =>
            /\ Len(stall_log) = Len(trace)
            /\ total_stall = FSumLeft(stall_log, Len(stall_log)))

\* a returned run in which one iteration stalled and another did not
C1_Witness ==
    /\ pc = "returned"
    /\ IsPos(total_stall)
    /\ \E k \in 1..Len(stall_log) : IsPos(stall_log[k])
    /\ \E k \in 1..Len(stall_log) : IsZero(stall_log[k])

\* what C2 promises of the iterations run so far and of the return value
WindowOneExact ==
    /\ i > 0 => (download_time = segment_length /\ buffer_sec = segment_length)
    /\ total_stall = Zero
    /\ pc = "returned" => avg_bitrate = Mean(Nums(trace))

\* every product trace[k] * segment_length is a float: the multiplication of
\* line 74 does not round
ProductsExact(t, seg) == \A k \in 1..Len(t) : IsFloat(RMul(FromInt(t[k]), seg))

\* C2 as stated: for every trace of positive throughputs and every segment_length > 0,
\* with smooth_window = 1 every download_time equals segment_length, the buffer is
\* back at segment_length after every step, the stall is 0 and the average bitrate
\* is the mean of the trace.
C2_AsStated ==
    (Running /\ smooth_window = 1 /\ Len(trace) > 0 /\ AllPositive(trace)
        /\ IsPos(segment_length))
    => WindowOneExact

\* C2, amended: the same, for the segment lengths whose product with every trace
\* sample is computed without rounding.
C2_WindowOneNoStall ==
    (Running /\ smooth_window = 1 /\ Len(trace) > 0 /\ AllPositive(trace)
        /\ IsPos(segment_length) /\ ProductsExact(trace, segment_length))
    => WindowOneExact

\* a returned window-1 run over a trace of several different positive samples
C2_Witness ==
    /\ pc = "returned" /\ smooth_window = 1
    /\ Len(trace) >= 2 /\ AllPositive(trace) /\ trace[1] # trace[2]
    /\ ProductsExact(trace, segment_length)
    /\ total_stall = Zero /\ buffer_sec = segment_length

\* C3: on a non-decreasing trace of positive throughputs the stall returned for any
\* window is at most the stall returned for the same trace and segment length with
\* window 1.
C3_StallAtMostWindowOne ==
    (pc = "returned" /\ AllPositive(trace) /\ NonDecreasing(trace)
        /\ IsPos(segment_length))
    => Le(total_stall, simulate_playback(trace, segment_length, 1).total_stall)

\* a wider window on an increasing trace that stalls less than window 1 does
C3_Witness ==
    /\ pc = "returned" /\ smooth_window > 1
    /\ AllPositive(trace) /\ NonDecreasing(trace)
    /\ Len(trace) >= 2 /\ trace[1] < trace[Len(trace)]
    /\ Lt(total_stall, simulate_playback(trace, segment_length, 1).total_stall)

\* C4: the returned average bitrate is the mean of the quality values the loop
\* used, one per trace index, whatever the segment length.
C4_AverageOfQualities ==
    pc = "returned" =>
        /\ Len(quality_log) = Len(trace)
        /\ avg_bitrate = Mean(quality_log)
        /\ \A seg \in SegSet :
              simulate_playback(trace, seg, smooth_window).avg_bitrate = avg_bitrate

\* a returned run whose average differs from the mean of the raw samples
C4_Witness ==
    /\ pc = "returned" /\ smooth_window > 1 /\ AllPositive(trace)
    /\ avg_bitrate # Mean(Nums(trace))
    /\ IsPos(total_stall)

\* C5: the quality of iteration idx is the mean of trace[max(0, idx-window+1)..idx]:
\* trace[0] at idx = 0, trace[idx] for window 1.
C5_SmoothedWindow ==
    (Running /\ i > 0) =>
        LET idx == i - 1
            lo  == Max(0, idx - smooth_window + 1)
        IN  /\ quality = FRound(Rat(SumInts(trace, lo + 1, idx + 1), idx - lo + 1))
            /\ idx = 0 => quality = FromInt(trace[1])
            /\ smooth_window = 1 => quality = FromInt(trace[idx + 1])

\* the window reaches back past the start of the trace and is clamped there
C5_Witness ==
    /\ Running /\ i = 2 /\ smooth_window = 3
    /\ trace[1] # trace[2]
    /\ quality = Mean(Nums(SubSeq(trace, 1, 2)))

----------------------------------------------------------------------------
(* Properties of simulate_throughput *)

Range(f) == {f[k] : k \in DOMAIN f}

\* row[1] + ... + row[j], added left to right as line 34 does
CumSum(row, j) == FSumLeft(row, j)

\* the indices (1-based) whose cumulative sum exceeds the draw
Exceeding(row, rr) == {j \in 1..Len(row) : Lt(rr, CumSum(row, j))}

Least(S) == CHOOSE x \in S : \A y \in S : x <= y

\* a step of the outer loop that ran to its end
ChainStepped == pc = "chain" /\ step' = step + 1

\* C6: the chain starts in state 0 and emits the current state's value before the
\* transition is drawn: the returned trace has num_steps samples, the first is
\* states[0], and every sample is an element of states.
C6_TraceShape ==
    /\ [](step = 0 => (current = 0 /\ trace = << >>))
    /\ [][ChainStepped => trace' = Append(trace, states[current + 1])]_vars
    /\ [](pc = "returned" =>
            /\ Len(trace) = num_steps
            /\ num_steps >= 1 => trace[1] = states[1]
            /\ \A k \in 1..Len(trace) : trace[k] \in Range(states))

\* a returned trace that left state 0
C6_Witness ==
    /\ pc = "returned" /\ num_steps = MaxSteps
    /\ Len(trace) = num_steps
    /\ \E k \in 2..Len(trace) : trace[k] # states[1]

\* C7: the next state is the least index whose cumulative probability is strictly
\* greater than the draw; a state of probability 0 is never selected.
C7_HalfOpenIntervals ==
    [][ChainStepped =>
         LET row == P[current + 1]
             J   == Exceeding(row, r')
         IN  J # {} =>
               /\ current' = Least(J) - 1
               /\ ~IsZero(row[current' + 1])
               /\ \A j \in 1..Len(row) : r' = CumSum(row, j) => current' > j - 1]_vars

\* the state whose sample was emitted last (the state lists hold distinct values)
LastEmitted == CHOOSE k \in 1..Len(states) : states[k] = trace[Len(trace)]

\* a draw equal to the boundary between the first and the second state moved the
\* chain to the second
C7_Witness ==
    /\ pc = "chain" /\ step >= 1 /\ Len(P) = 2 /\ Len(states) = 2
    /\ LET row == P[LastEmitted]
       IN  /\ Len(row) = 2 /\ IsPos(row[1]) /\ IsPos(row[2])
           /\ r = CumSum(row, 1)
           /\ current = 1

\* the draw falls in the uncovered tail of a row that sums to less than 1
InTail(row, rr) == Lt(CumSum(row, Len(row)), One) /\ Ge(rr, CumSum(row, Len(row)))

\* C8: a draw in the uncovered tail of a row that sums to less than 1 does not fail:
\* the sample is emitted, the chain stays in its state and the loop goes on;
\* sampling only ever fails on a state index that states or P does not have.
C8_UncoveredTail ==
    /\ [][(pc = "chain" /\ step < num_steps /\ current < Len(states)
            /\ current < Len(P) /\ draws' = draws + 1 /\ InTail(P[current + 1], r'))
          => /\ pc' = "chain"
             /\ current' = current
             /\ step' = step + 1
             /\ Len(trace') = Len(trace) + 1]_vars
    /\ [](pc = "raised" => (current >= Len(states) \/ current >= Len(P)))

\* row 0 is <<0, 1/2>>: the chain stayed in state 0 on a tail draw, then moved to
\* state 1 on an ordinary draw, and the trace was returned
C8_Witness ==
    /\ pc = "returned" /\ num_steps = 3 /\ Len(states) = 2
    /\ P[1] = Quarters(<<0, 2>>)
    /\ trace = << states[1], states[1], states[2] >>

----------------------------------------------------------------------------
(* Properties of parameter_sweep *)

\* the pair of the k-th cell (k >= 1) when the segment lengths are the outer loop
\* and the windows the inner loop
PairAt(k) ==
    << segment_lengths[((k - 1) \div Len(smooth_windows)) + 1],
       smooth_windows[((k - 1) % Len(smooth_windows)) + 1] >>

\* C9: the table is one header row, segment_length, smooth_window, mean_bitrate,
\* sd_bitrate, mean_stall, sd_stall, followed by one six-column row per pair in
\* nested order, segment lengths outside and windows inside: the k-th data row
\* carries the k-th pair, and a sweep that returns has written
\* len(segment_lengths) * len(smooth_windows) data rows.
C9_TableOrder ==
    /\ pc = "sweep" => rows = << >>
    /\ pc # "sweep" =>
         /\ Len(rows) >= 1
         /\ rows[1] = << "segment_length", "smooth_window", "mean_bitrate",
                         "sd_bitrate", "mean_stall", "sd_stall" >>
         /\ \A k \in 1..(Len(rows) - 1) :
               /\ Len(rows[k + 1]) = 6
               /\ rows[k + 1][1] = PairAt(k)[1]
               /\ rows[k + 1][2] = PairAt(k)[2]
    /\ pc = "returned" =>
         Len(rows) = 1 + Len(segment_lengths) * Len(smooth_windows)

\* a sweep over two segment lengths and two windows returned its four rows
C9_Witness ==
    /\ pc = "returned"
    /\ Len(segment_lengths) = 2 /\ Len(smooth_windows) = 2
    /\ segment_lengths[1] # segment_lengths[2]
    /\ smooth_windows[1] # smooth_windows[2]
    /\ Len(rows) = 5
    /\ rows[3][1] = segment_lengths[1] /\ rows[3][2] = smooth_windows[2]
    /\ rows[4][1] = segment_lengths[2] /\ rows[4][2] = smooth_windows[1]

\* C10: a trace with a sample that is 0 or negative is rejected with
\* InvalidStateError before any segment is played, and no outcome is returned for it.
C10_NonPositiveRejected ==
    (\E k \in 1..Len(trace) : trace[k] <= 0) =>
        /\ pc # "returned"
        /\ i = 0
        /\ pc = "raised" => err = "InvalidStateError"

\* the loops stand at a cell whose trials are all done: the aggregation is next
Aggregating == AtCell /\ run >= runs

\* the aggregation of a cell raised
AggregationRaised == pc = "raised" /\ run >= runs

\* what C11 and its amendment share: one trial is accepted and yields one outcome,
\* a sweep over at least one cell with fewer than 2 trials does not return, and no
\* row is written for a cell with fewer than 2 trials
FewTrialsNoRow ==
    /\ (Aggregating /\ runs = 1) => Len(results) = 1
    /\ runs < 2 =>
          /\ Len(rows) <= 1
          /\ pc # "returned"

InvalidCell(k) == ~IsPos(PairAt(k)[1]) \/ PairAt(k)[2] <= 0

\* the configuration of the sweep is invalid
InvalidConfiguration ==
    \/ \E k \in 1..Len(segment_lengths) : ~IsPos(segment_lengths[k])
    \/ \E k \in 1..Len(smooth_windows) : smooth_windows[k] <= 0
    \/ num_steps <= 0
    \/ runs <= 0

\* C12: a sweep with a segment length <= 0, a window <= 0, or num_steps or runs <= 0
\* aborts at the first invalid configuration: it does not return, it writes no row
\* for the offending cell or for any cell after it (none at all when num_steps or
\* runs is invalid), and so never computes a row from the invalid value.
C12_FailFast ==
    InvalidConfiguration =>
        /\ pc # "returned"
        /\ \A k \in 1..(Len(rows) - 1) : \A j \in 1..k : ~InvalidCell(j)
        /\ (num_steps <= 0 \/ runs <= 0) => Len(rows) <= 1

\* some row of the transition matrix is shorter or longer than states
RowLengthMismatch == \E k \in 1..Len(P) : Len(P[k]) # Len(states)

\* C13: when a row of the transition matrix does not have the length of states,
\* simulate_throughput (asked for at least one sample) raises ConfigurationError:
\* it returns no trace, it emits no sample, and it does not fail with another
\* error later.
C13_RowLengthChecked ==
    (RowLengthMismatch /\ num_steps >= 1) =>
        /\ pc # "returned"
        /\ trace = << >>
        /\ pc = "raised" => err = "ConfigurationError"

\* xs is the beginning of ys
IsPrefix(xs, ys) == Len(xs) <= Len(ys) /\ \A k \in 1..Len(xs) : xs[k] = ys[k]

\* C14: given the same arguments and the same sequence of draws, the second call of
\* parameter_sweep repeats the first: every call of simulate_throughput returns the
\* trace its counterpart returned, every row written is the row its counterpart
\* wrote, and the call ends as the first did with the same table.
C14_Reproducible ==
    pass = 2 =>
        /\ IsPrefix(calls, first.calls)
        /\ IsPrefix(rows, first.rows)
        /\ pc \in {"returned", "raised"} =>
              /\ calls = first.calls
              /\ rows = first.rows
              /\ pc = first.pc
              /\ err = first.err

\* the second call returned the table of the first, a table with a row computed
\* from two trials whose traces differ
C14_Witness ==
    /\ pass = 2 /\ pc = "returned"
    /\ Len(rows) >= 2 /\ rows = first.rows
    /\ Len(calls) >= 2 /\ calls[1] # calls[2]
    /\ ~IsZero(rows[2][4])

\* the values the source yields next, as many as one trace takes
NextDraws == [k \in 1..num_steps |-> source[draws + k]]

\* a trial of monte_carlo ran to its end
TrialDone == run' = run + 1

\* C15: no call changes the transition matrix, the state list or any other argument;
\* a trace that simulate_throughput returned is the trace the trial still holds after
\* simulate_playback, and it stays as it was returned; every trial samples its own
\* trace from values of the source that no earlier trial took; nothing but the
\* position in the random source is consumed.
C15_Frame ==
    /\ [][/\ P' = P /\ states' = states /\ num_steps' = num_steps
          /\ segment_lengths' = segment_lengths
          /\ smooth_windows' = smooth_windows /\ runs' = runs
          /\ source' = source]_vars
    /\ [][pass' = pass => IsPrefix(calls, calls')]_vars
    /\ [][TrialDone =>
            /\ draws' = draws + num_steps
            /\ trace' = simulate_throughput(num_steps, P, states, NextDraws).trace
            /\ calls' = Append(calls, trace')]_vars
    /\ [][pass' = pass => draws' >= draws]_vars

\* two trials of one cell ran to their end on different traces, each sampled from
\* its own values of the source
C15_Witness ==
    /\ pass = 1 /\ pc = "cell" /\ run = 2 /\ num_steps = 2
    /\ Len(calls) = 2 /\ calls[1] # calls[2] /\ trace = calls[2]
    /\ draws = 4

\* simulate_playback runs on valid input
ValidPlayback ==
    /\ Running /\ AllPositive(trace)
    /\ IsPos(segment_length) /\ smooth_window >= 1

\* the buffer of lines 76-81, before line 83 replenishes it, for download time dt
Drained(buf, dt) == IF Ge(buf, dt) THEN FSub(buf, dt) ELSE Zero

\* C16: on a trace of positive samples, with segment_length > 0 and smooth_window
\* >= 1, the buffer is never negative, neither between the iterations nor before
\* it is replenished; after every iteration it is at least segment_length; the
\* stall total is never negative and never decreases.
C16_BufferInvariants ==
    /\ [](ValidPlayback =>
            /\ Ge(buffer_sec, Zero)
            /\ Ge(total_stall, Zero)
            /\ i > 0 => Ge(buffer_sec, segment_length))
    /\ [][(ValidPlayback /\ i' = i + 1) =>
            /\ Ge(Drained(buffer_sec, download_time'), Zero)
            /\ buffer_sec' = FAdd(Drained(buffer_sec, download_time'),
                                  segment_length)]_vars
    /\ [][ValidPlayback => Le(total_stall, total_stall')]_vars

\* the first iteration left the buffer above segment_length without a stall, a
\* later one stalled and left it at segment_length
C16_Witness ==
    /\ ValidPlayback /\ i >= 2
    /\ IsZero(stall_log[1]) /\ IsPos(stall_log[i])
    /\ Lt(Zero, total_stall)
    /\ buffer_sec = segment_length

====
